---- MODULE Spec2Model ----
(***************************************************************************)
(* Model of src/bonds_and_inflation.py: TreasuryBond and Portfolio.        *)
(*                                                                         *)
(* Representation.                                                         *)
(*  - A date is its proleptic Gregorian ordinal (datetime.date.toordinal), *)
(*    so date + timedelta(days=n) is ordinal + n.  Date(y, m, d) computes  *)
(*    the ordinal with the calendar's leap-year rule.                      *)
(*  - An interest rate is an integer count of thousandths (0.02 is 20),    *)
(*    a principal is an integer count of dollars, and an interest amount   *)
(*    principal * interest_rate is therefore in thousandths of a dollar    *)
(*    (2000.0 dollars is Dollars(2000)).  Arithmetic is exact.             *)
(*  - A return value is <<v>>, and None is <<>>.  An exception is named by *)
(*    its class.                                                           *)
(***************************************************************************)
EXTENDS Integers, Sequences, FiniteSets, TLC

VARIABLES bonds,             \* Portfolio.bonds: sequence of TreasuryBond records
          rollover_history,  \* Portfolio.rollover_history: sequence of <<date, interest>>
          op,                \* name of the last method called on the portfolio
          args,              \* arguments of that call
          ret,               \* its return value
          raised,            \* the exception it raised, "" when it returned
          rollover_count,    \* simulate_rollover's local at its return; 0 outside a call
          total_rolled,      \* simulate_rollover's local at its return; 0 outside a call
          calls              \* number of simulate_rollover calls made so far

vars == <<bonds, rollover_history, op, args, ret, raised, rollover_count, total_rolled, calls>>

----------------------------------------------------------------------------
(* Bounds of the model *)

MaxBonds == 2
MaxCalls == 3

----------------------------------------------------------------------------
(* datetime.date and timedelta *)

IsLeap(y) == (y % 4 = 0) /\ ((y % 100 # 0) \/ (y % 400 = 0))

DaysBeforeYear(y) ==
    LET p == y - 1 IN p * 365 + (p \div 4) - (p \div 100) + (p \div 400)

DaysBeforeMonth(y, m) ==
    <<0, 31, 59, 90, 120, 151, 181, 212, 243, 273, 304, 334>>[m]
      + (IF m > 2 /\ IsLeap(y) THEN 1 ELSE 0)

Date(y, m, d) == DaysBeforeYear(y) + DaysBeforeMonth(y, m) + d

Dollars(x) == x * 1000

None == <<>>

----------------------------------------------------------------------------
(* Inputs the callers supply *)

\* add_bond(principal, issue_date, maturity_years, interest_rate)
BondInputs ==
    { <<100000, Date(2020, 1, 1), 1, 20>>,
      <<40000, Date(2020, 1, 1), 2, 20>>,
      <<40000, Date(2020, 1, 1), 0, 20>> }

\* simulate_rollover(current_date, new_rate)
RolloverInputs ==
    { <<Date(2020, 12, 30), 25>>,
      <<Date(2021, 1, 1), 25>>,
      <<Date(2021, 1, 1), 0>>,
      <<Date(2021, 12, 31), 25>> }

\* add_bond inputs that include a negative principal and maturity_years < 1
BondInputsWide ==
    { <<100000, Date(2020, 1, 1), 1, 20>>,
      <<40000, Date(2020, 1, 1), 2, 20>>,
      <<-40000, Date(2020, 1, 1), 0, 20>> }

\* simulate_rollover inputs that reach the second maturity of a one-year bond
RolloverInputsWide ==
    { <<Date(2021, 1, 1), 25>>,
      <<Date(2021, 1, 1), 0>>,
      <<Date(2021, 12, 31), 25>>,
      <<Date(2022, 1, 1), 25>> }

\* what the plotext library does with an empty series: it returns or it raises
PlotextOutcomes == {"returns", "raises"}

----------------------------------------------------------------------------
(* TreasuryBond *)

TreasuryBond(principal, issue_date, maturity_years, interest_rate) ==
    [principal |-> principal, issue_date |-> issue_date,
     maturity_years |-> maturity_years, interest_rate |-> interest_rate]

\* a variant that counts the years after the first
maturity_date_off_by_one(bond) == bond.issue_date + 365 * (bond.maturity_years - 1)

\* a variant that gives a leap issue year 366 days
maturity_date_calendar(bond) ==
    bond.issue_date + 365 * bond.maturity_years
      + (IF \E y \in 2019..2023 : IsLeap(y) /\ bond.issue_date >= Date(y, 1, 1)
                                             /\ bond.issue_date <= Date(y, 2, 29)
         THEN 1 ELSE 0)

maturity_date(bond) == bond.issue_date + 365 * bond.maturity_years

----------------------------------------------------------------------------
(* Portfolio *)

\* Python's sum(): a left fold from 0
RECURSIVE sum(_)
sum(s) == IF s = <<>> THEN 0 ELSE sum(SubSeq(s, 1, Len(s) - 1)) + s[Len(s)]

get_total_debt(bs) == sum([i \in DOMAIN bs |-> bs[i].principal])

\* a variant that prices every bond at the first bond's rate
cacl_annual_interest_first_rate(bs) ==
    sum([i \in DOMAIN bs |-> bs[i].principal * bs[1].interest_rate])

cacl_annual_interest(bs) ==
    sum([i \in DOMAIN bs |-> bs[i].principal * bs[i].interest_rate])

\* if bond.maturity_date <= current_date: a variant with a strict comparison
IsMature_strict(bond, current_date) == maturity_date(bond) < current_date

\* a variant that compares the issue date instead of the maturity date
IsMature_issued(bond, current_date) == bond.issue_date <= current_date

\* if bond.maturity_date <= current_date
IsMature(bond, current_date) == maturity_date(bond) <= current_date

\* a variant that forgets to reset the issue date
Reissue_rate_only(bond, current_date, new_rate) ==
    [bond EXCEPT !.interest_rate = new_rate]

\* a variant that adds the year's interest to the principal
Reissue_capitalize(bond, current_date, new_rate) ==
    [bond EXCEPT !.issue_date = current_date, !.interest_rate = new_rate,
                 !.principal = @ + (@ * bond.interest_rate) \div 1000]

\* bond.issue_date = current_date; bond.interest_rate = new_rate
Reissue(bond, current_date, new_rate) ==
    [bond EXCEPT !.issue_date = current_date, !.interest_rate = new_rate]

\* for i, bond in enumerate(self.bonds): the portfolio's bonds and the two
\* counters after the first n iterations
RECURSIVE RolloverLoop(_, _, _, _)
RolloverLoop(bs, n, current_date, new_rate) ==
    IF n = 0
    THEN [bonds |-> bs, rollover_count |-> 0, total_rolled |-> 0]
    ELSE LET prev == RolloverLoop(bs, n - 1, current_date, new_rate)
             bond == prev.bonds[n]
         IN  IF IsMature(bond, current_date)
             THEN [bonds |-> [prev.bonds EXCEPT ![n] = Reissue(bond, current_date, new_rate)],
                   rollover_count |-> prev.rollover_count + 1,
                   total_rolled |-> prev.total_rolled + bond.principal]
             ELSE prev

\* a variant with the operands swapped
InterestChange_swapped(new_interest, old_interest) == old_interest - new_interest

\* interest_change = new_interest - old_interest
InterestChange(new_interest, old_interest) == new_interest - old_interest

\* a variant that keeps one snapshot per date
AppendHistory_per_date(history, current_date, new_interest) ==
    IF history # <<>> /\ history[Len(history)][1] = current_date
    THEN [history EXCEPT ![Len(history)] = <<current_date, new_interest>>]
    ELSE Append(history, <<current_date, new_interest>>)

\* a variant that inserts the snapshot at the front
AppendHistory_front(history, current_date, new_interest) ==
    <<(<<current_date, new_interest>>)>> \o history

\* self.rollover_history.append((current_date, new_interest))
AppendHistory(history, current_date, new_interest) ==
    Append(history, <<current_date, new_interest>>)

Init ==
    /\ bonds = <<>>
    /\ rollover_history = <<>>
    /\ op = "__init__"
    /\ args = <<>>
    /\ ret = None
    /\ raised = ""
    /\ rollover_count = 0
    /\ total_rolled = 0
    /\ calls = 0

\* a variant that inserts the bond at the front
add_bond_front(principal, issue_date, maturity_years, interest_rate) ==
    /\ Len(bonds) < MaxBonds
    /\ bonds' = <<TreasuryBond(principal, issue_date, maturity_years, interest_rate)>> \o bonds
    /\ op' = "add_bond"
    /\ args' = <<principal, issue_date, maturity_years, interest_rate>>
    /\ ret' = None
    /\ raised' = ""
    /\ rollover_count' = 0
    /\ total_rolled' = 0
    /\ UNCHANGED <<rollover_history, calls>>

\* a variant that validates its input
add_bond_validating(principal, issue_date, maturity_years, interest_rate) ==
    /\ Len(bonds) < MaxBonds
    /\ IF principal < 0 \/ maturity_years < 1
       THEN /\ bonds' = bonds
            /\ raised' = "ValueError"
       ELSE /\ bonds' = Append(bonds, TreasuryBond(principal, issue_date, maturity_years, interest_rate))
            /\ raised' = ""
    /\ op' = "add_bond"
    /\ args' = <<principal, issue_date, maturity_years, interest_rate>>
    /\ ret' = None
    /\ rollover_count' = 0
    /\ total_rolled' = 0
    /\ UNCHANGED <<rollover_history, calls>>

add_bond(principal, issue_date, maturity_years, interest_rate) ==
    /\ Len(bonds) < MaxBonds
    /\ bonds' = Append(bonds, TreasuryBond(principal, issue_date, maturity_years, interest_rate))
    /\ op' = "add_bond"
    /\ args' = <<principal, issue_date, maturity_years, interest_rate>>
    /\ ret' = None
    /\ raised' = ""
    /\ rollover_count' = 0
    /\ total_rolled' = 0
    /\ UNCHANGED <<rollover_history, calls>>

GetTotalDebt ==
    /\ op' = "get_total_debt"
    /\ args' = <<>>
    /\ ret' = <<get_total_debt(bonds)>>
    /\ raised' = ""
    /\ rollover_count' = 0
    /\ total_rolled' = 0
    /\ UNCHANGED <<bonds, rollover_history, calls>>

CaclAnnualInterest ==
    /\ op' = "cacl_annual_interest"
    /\ args' = <<>>
    /\ ret' = <<cacl_annual_interest(bonds)>>
    /\ raised' = ""
    /\ rollover_count' = 0
    /\ total_rolled' = 0
    /\ UNCHANGED <<bonds, rollover_history, calls>>

simulate_rollover(current_date, new_rate) ==
    /\ calls < MaxCalls
    /\ LET old_interest == cacl_annual_interest(bonds)
           loop == RolloverLoop(bonds, Len(bonds), current_date, new_rate)
           new_interest == cacl_annual_interest(loop.bonds)
           interest_change == InterestChange(new_interest, old_interest)
       IN  /\ bonds' = loop.bonds
           /\ rollover_count' = loop.rollover_count
           /\ total_rolled' = loop.total_rolled
           /\ rollover_history' = AppendHistory(rollover_history, current_date, new_interest)
           /\ ret' = <<interest_change>>
    /\ raised' = ""
    /\ op' = "simulate_rollover"
    /\ args' = <<current_date, new_rate>>
    /\ calls' = calls + 1

\* costs = [cost/1000 for _, cost in self.rollover_history]: a cost is an
\* interest amount in thousands of dollars; as a number of thousandths of that
\* unit it is the same integer as the interest in thousandths of a dollar
Costs(history) == [i \in DOMAIN history |-> history[i][2]]

\* Python's max() and min() of a non-empty sequence
max(s) == CHOOSE x \in {s[i] : i \in DOMAIN s} : \A i \in DOMAIN s : s[i] <= x

min(s) == CHOOSE x \in {s[i] : i \in DOMAIN s} : \A i \in DOMAIN s : x <= s[i]

\* a variant with max(costs, default=0): no bar is drawn for an empty history
plot_rich_raises_default(history) ==
    IF history = <<>> THEN ""
    ELSE IF max(Costs(history)) = 0 THEN "ZeroDivisionError"
    ELSE ""

\* The exception plot_rich ends with: max() of an empty sequence raises
\* ValueError; otherwise the first cost / max_cost raises ZeroDivisionError
\* when max_cost is 0
plot_rich_raises(history) ==
    IF history = <<>> THEN "ValueError"
    ELSE IF max(Costs(history)) = 0 THEN "ZeroDivisionError"
    ELSE ""

\* The exception plotext_plot ends with.  Given an empty series the plotext
\* calls of lines 116-122 return or raise (the library is not part of the
\* source); when they return, min() of an empty sequence raises ValueError
plotext_plot_raises(history, library) ==
    IF history # <<>> THEN ""
    ELSE IF library = "raises" THEN "PlotextError"
    ELSE "ValueError"

PlotRich ==
    /\ op' = "plot_rich"
    /\ args' = <<>>
    /\ ret' = None
    /\ raised' = plot_rich_raises(rollover_history)
    /\ rollover_count' = 0
    /\ total_rolled' = 0
    /\ UNCHANGED <<bonds, rollover_history, calls>>

PlotextPlot ==
    \E library \in PlotextOutcomes :
        /\ op' = "plotext_plot"
        /\ args' = <<>>
        /\ ret' = None
        /\ raised' = plotext_plot_raises(rollover_history, library)
        /\ rollover_count' = 0
        /\ total_rolled' = 0
        /\ UNCHANGED <<bonds, rollover_history, calls>>

AddBond ==
    \E b \in BondInputs : add_bond(b[1], b[2], b[3], b[4])

SimulateRollover ==
    \E e \in RolloverInputs : simulate_rollover(e[1], e[2])

Next == AddBond \/ GetTotalDebt \/ CaclAnnualInterest \/ SimulateRollover

Spec == Init /\ [][Next]_vars

\* The portfolio under the wider inputs, with the reporting operations
AddBondWide ==
    \E b \in BondInputsWide : add_bond(b[1], b[2], b[3], b[4])

SimulateRolloverWide ==
    \E e \in RolloverInputsWide : simulate_rollover(e[1], e[2])

NextWide == AddBondWide \/ SimulateRolloverWide \/ PlotRich \/ PlotextPlot

SpecWide == Init /\ [][NextWide]_vars

----------------------------------------------------------------------------
(* Properties *)

\* The step is one simulate_rollover(current_date, new_rate) call
RolloverStep(current_date, new_rate) ==
    /\ calls' = calls + 1
    /\ op' = "simulate_rollover"
    /\ args' = <<current_date, new_rate>>

Last(s) == s[Len(s)]

\* C1: in one simulate_rollover(current_date, new_rate) call every bond whose
\* maturity date (issue_date + 365 * maturity_years days, before the call) is
\* on or before current_date ends with interest_rate = new_rate and
\* issue_date = current_date, and every other bond keeps both fields.
C1_RolloverEffect ==
    [][\A d \in {e[1] : e \in RolloverInputs}, r \in {e[2] : e \in RolloverInputs} :
         RolloverStep(d, r) =>
           /\ DOMAIN bonds' = DOMAIN bonds
           /\ \A i \in DOMAIN bonds :
                IF bonds[i].issue_date + 365 * bonds[i].maturity_years <= d
                THEN /\ bonds'[i].interest_rate = r
                     /\ bonds'[i].issue_date = d
                ELSE /\ bonds'[i].interest_rate = bonds[i].interest_rate
                     /\ bonds'[i].issue_date = bonds[i].issue_date]_vars

\* A call on 2021-12-31 has rolled a two-year bond issued on 2020-01-01
\* (maturing exactly that day) and has left alone a one-year bond that an
\* earlier call had reissued on 2021-01-01 at another rate.
C1_Witness ==
    /\ op = "simulate_rollover"
    /\ calls = 2
    /\ args = <<Date(2021, 12, 31), 25>>
    /\ rollover_count = 1
    /\ \E i, j \in DOMAIN bonds :
         /\ bonds[i].maturity_years = 2
         /\ bonds[i].issue_date = args[1]
         /\ bonds[i].interest_rate = args[2]
         /\ bonds[j].maturity_years = 1
         /\ bonds[j].issue_date = Date(2021, 1, 1)
         /\ bonds[j].interest_rate = 0

\* C2: the length of rollover_history equals the number of simulate_rollover
\* calls made so far, whatever each call rolled and however many bonds were
\* added.
C2_HistoryLength == Len(rollover_history) = calls

\* Several calls have been made, bonds were added, and the last call rolled
\* nothing while an earlier one rolled a bond.
C2_Witness ==
    /\ calls >= 2
    /\ op = "simulate_rollover"
    /\ rollover_count = 0
    /\ Len(bonds) = 2
    /\ \E i \in DOMAIN bonds : bonds[i].issue_date = rollover_history[1][1]

\* C3: a simulate_rollover(current_date, new_rate) call returns the annual
\* interest after the call minus the annual interest before it, and appends
\* exactly (current_date, annual interest after the call) to the history.
C3_ReturnAndEntry ==
    [][\A d \in {e[1] : e \in RolloverInputs}, r \in {e[2] : e \in RolloverInputs} :
         RolloverStep(d, r) =>
           /\ ret' = <<cacl_annual_interest(bonds') - cacl_annual_interest(bonds)>>
           /\ rollover_history' =
                rollover_history \o <<(<<d, cacl_annual_interest(bonds')>>)>>]_vars

\* A call has rolled one bond of two to a lower rate and returned a negative
\* change.
C3_Witness ==
    /\ op = "simulate_rollover"
    /\ Len(bonds) = 2
    /\ rollover_count = 1
    /\ ret # None
    /\ ret[1] < 0
    /\ Last(rollover_history)[2] > 0

\* C4: a bond's principal and maturity_years never change, no bond is removed
\* or moved, and a step that is not a simulate_rollover call changes no bond
\* at all.
C4_BondFrame ==
    [][/\ Len(bonds') >= Len(bonds)
       /\ \A i \in DOMAIN bonds :
            /\ bonds'[i].principal = bonds[i].principal
            /\ bonds'[i].maturity_years = bonds[i].maturity_years
            /\ (calls' = calls => bonds'[i] = bonds[i])]_vars

\* A bond was added behind a bond that a rollover had reissued before.
C4_Witness ==
    /\ op = "add_bond"
    /\ calls >= 1
    /\ Len(bonds) = 2
    /\ bonds[1].issue_date = rollover_history[1][1]
    /\ bonds[1].interest_rate # bonds[2].interest_rate
    /\ bonds[1].principal # bonds[2].principal

\* C5: when every bond has maturity_years >= 1, a simulate_rollover call made
\* right after a simulate_rollover call with the same current_date rolls and
\* changes no bond, returns 0 and appends one more history entry.
C5_SameDateAgain ==
    [][\A d \in {e[1] : e \in RolloverInputs}, r \in {e[2] : e \in RolloverInputs} :
         ( /\ op = "simulate_rollover"
           /\ args[1] = d
           /\ \A i \in DOMAIN bonds : bonds[i].maturity_years >= 1
           /\ RolloverStep(d, r) ) =>
           /\ rollover_count' = 0
           /\ bonds' = bonds
           /\ ret' = <<0>>
           /\ Len(rollover_history') = Len(rollover_history) + 1]_vars

\* Two calls in a row carried the same date and different rates; the first
\* had rolled a bond, which still carries the first call's rate.
C5_Witness ==
    /\ op = "simulate_rollover"
    /\ calls = 2
    /\ rollover_history[1][1] = rollover_history[2][1]
    /\ rollover_count = 0
    /\ ret = <<0>>
    /\ \A i \in DOMAIN bonds : bonds[i].maturity_years >= 1
    /\ \E i \in DOMAIN bonds :
         /\ bonds[i].issue_date = args[1]
         /\ bonds[i].interest_rate # args[2]

\* C6: a simulate_rollover call whose current_date is strictly before every
\* bond's maturity date changes no bond, returns 0 and appends exactly
\* (current_date, annual interest), the annual interest being unchanged; on
\* an empty portfolio the entry is (current_date, 0) and the result 0.
C6_NothingMature ==
    [][\A d \in {e[1] : e \in RolloverInputs}, r \in {e[2] : e \in RolloverInputs} :
         ( /\ \A i \in DOMAIN bonds : maturity_date(bonds[i]) > d
           /\ RolloverStep(d, r) ) =>
           /\ bonds' = bonds
           /\ ret' = <<0>>
           /\ cacl_annual_interest(bonds') = cacl_annual_interest(bonds)
           /\ rollover_history' =
                rollover_history \o <<(<<d, cacl_annual_interest(bonds)>>)>>
           /\ (bonds = <<>> => Last(rollover_history') = <<d, 0>>)]_vars

\* A first call ran on the empty portfolio and recorded 0; bonds were added,
\* and a second call before their maturity rolled nothing and recorded their
\* interest.
C6_Witness ==
    /\ op = "simulate_rollover"
    /\ calls = 2
    /\ rollover_history[1][2] = 0
    /\ \A i \in DOMAIN bonds : bonds[i].issue_date # rollover_history[1][1]
    /\ Len(bonds) = 2
    /\ rollover_count = 0
    /\ ret = <<0>>
    /\ rollover_history[2][2] > 0

\* The bond of the two scenarios
ScenarioBond == TreasuryBond(100000, Date(2020, 1, 1), 1, 20)

\* C7 as stated: on a portfolio holding only the scenario bond the maturity
\* date is 2021-12-31, and simulate_rollover(2021-01-01, 0.025) rolls nothing,
\* returns 0, leaves the rate at 0.02 and appends (2021-01-01, 2000).
C7_AsStated ==
    [][( /\ bonds = <<ScenarioBond>>
         /\ RolloverStep(Date(2021, 1, 1), 25) ) =>
         /\ maturity_date(ScenarioBond) = Date(2021, 12, 31)
         /\ rollover_count' = 0
         /\ ret' = <<0>>
         /\ bonds'[1].interest_rate = 20
         /\ Last(rollover_history') = <<Date(2021, 1, 1), Dollars(2000)>>]_vars

\* C7 amended: the maturity date of the scenario bond is 2020-12-31 (2020 has
\* 366 days), so simulate_rollover(2021-01-01, 0.025) rolls the bond: its rate
\* becomes 0.025 and its issue date 2021-01-01, the call returns 500 and
\* appends (2021-01-01, 2500).
C7_Amended ==
    [][( /\ bonds = <<ScenarioBond>>
         /\ RolloverStep(Date(2021, 1, 1), 25) ) =>
         /\ maturity_date(ScenarioBond) = Date(2020, 12, 31)
         /\ rollover_count' = 1
         /\ ret' = <<Dollars(500)>>
         /\ bonds' = <<TreasuryBond(100000, Date(2021, 1, 1), 1, 25)>>
         /\ Last(rollover_history') = <<Date(2021, 1, 1), Dollars(2500)>>]_vars

\* simulate_rollover(2021-01-01, 0.025) has run as the second call on the
\* portfolio holding only the scenario bond, the first call having been too
\* early to roll it.
C7_Witness ==
    /\ op = "simulate_rollover"
    /\ args = <<Date(2021, 1, 1), 25>>
    /\ calls = 2
    /\ rollover_history[1] = <<Date(2020, 12, 30), Dollars(2000)>>
    /\ Len(bonds) = 1
    /\ bonds[1].principal = 100000
    /\ bonds[1].maturity_years = 1
    /\ rollover_count = 1

\* C8: on a fresh portfolio holding only the scenario bond,
\* simulate_rollover(2021-12-31, 0.025) rolls the bond: its rate becomes
\* 0.025, its issue date 2021-12-31, the annual interest 2500, and the call
\* returns 500.
C8_MaturityReached ==
    [][( /\ bonds = <<ScenarioBond>>
         /\ calls = 0
         /\ RolloverStep(Date(2021, 12, 31), 25) ) =>
         /\ rollover_count' = 1
         /\ bonds'[1].interest_rate = 25
         /\ bonds'[1].issue_date = Date(2021, 12, 31)
         /\ cacl_annual_interest(bonds') = Dollars(2500)
         /\ ret' = <<Dollars(500)>>]_vars

\* simulate_rollover(2021-12-31, 0.025) has run as the first call on the
\* portfolio holding only the scenario bond.
C8_Witness ==
    /\ op = "simulate_rollover"
    /\ args = <<Date(2021, 12, 31), 25>>
    /\ calls = 1
    /\ Len(bonds) = 1
    /\ bonds[1].principal = 100000
    /\ bonds[1].maturity_years = 1
    /\ total_rolled = 100000

\* The sum of the values of the function f at the indices in S
RECURSIVE Sigma(_, _)
Sigma(S, f) ==
    IF S = {} THEN 0
    ELSE LET i == CHOOSE j \in S : TRUE
         IN  f[i] + Sigma(S \ {i}, f)

\* C9: get_total_debt() returns the sum of the principals and
\* cacl_annual_interest() the sum of principal * interest_rate at the current
\* rates; both return 0 on the empty portfolio; neither call changes the
\* bonds or the history.
C9_Aggregates ==
    [][/\ op' = "get_total_debt" =>
            /\ ret' = <<Sigma(DOMAIN bonds, [i \in DOMAIN bonds |-> bonds[i].principal])>>
            /\ (bonds = <<>> => ret' = <<0>>)
            /\ UNCHANGED <<bonds, rollover_history>>
       /\ op' = "cacl_annual_interest" =>
            /\ ret' = <<Sigma(DOMAIN bonds,
                            [i \in DOMAIN bonds |->
                               bonds[i].principal * bonds[i].interest_rate])>>
            /\ (bonds = <<>> => ret' = <<0>>)
            /\ UNCHANGED <<bonds, rollover_history>>]_vars

\* cacl_annual_interest() was called on two bonds of different principal that
\* carry different rates after a rollover.
C9_Witness ==
    /\ op = "cacl_annual_interest"
    /\ calls >= 1
    /\ Len(bonds) = 2
    /\ bonds[1].principal # bonds[2].principal
    /\ bonds[1].interest_rate = 20
    /\ bonds[2].interest_rate = 25
    /\ ret = <<bonds[1].principal * 20 + bonds[2].principal * 25>>

\* C10: every entry of rollover_history keeps its position and its value in
\* every later state.
C10_AppendOnly ==
    [][/\ Len(rollover_history') >= Len(rollover_history)
       /\ \A i \in DOMAIN rollover_history :
            rollover_history'[i] = rollover_history[i]]_vars

\* Three snapshots of different interest are on record, the last call having
\* reissued a bond, and a bond was added since.
C10_Witness ==
    /\ Len(rollover_history) = 3
    /\ rollover_history[1][2] # rollover_history[2][2]
    /\ rollover_history[2][2] # rollover_history[3][2]
    /\ \E i \in DOMAIN bonds : bonds[i].issue_date = rollover_history[3][1]
    /\ op = "add_bond"

\* C11: add_bond(principal, issue_date, maturity_years, interest_rate) raises
\* nothing for any input, a negative principal and maturity_years < 1
\* included; it appends one bond with exactly those four values at the end,
\* leaves the other bonds and the history alone, and so raises the total debt
\* by principal and the annual interest by principal * interest_rate.
C11_AddBond ==
    [][\A b \in BondInputsWide :
         (op' = "add_bond" /\ args' = b) =>
           /\ raised' = ""
           /\ ret' = None
           /\ bonds' = bonds \o <<[principal |-> b[1], issue_date |-> b[2],
                                   maturity_years |-> b[3], interest_rate |-> b[4]]>>
           /\ rollover_history' = rollover_history
           /\ get_total_debt(bonds') = get_total_debt(bonds) + b[1]
           /\ cacl_annual_interest(bonds') = cacl_annual_interest(bonds) + b[1] * b[4]]_vars

\* A bond of negative principal and maturity_years 0 was added behind a bond
\* that a rollover had reissued.
C11_Witness ==
    /\ op = "add_bond"
    /\ raised = ""
    /\ args[1] < 0
    /\ args[3] < 1
    /\ Len(bonds) = 2
    /\ bonds[2].principal = args[1]
    /\ bonds[2].maturity_years = args[3]
    /\ bonds[1].issue_date # Date(2020, 1, 1)
    /\ rollover_history # <<>>
    /\ get_total_debt(bonds) = bonds[1].principal + args[1]

C13_ReissuedBond ==
    [][\A e \in RolloverInputsWide :
         RolloverStep(e[1], e[2]) =>
           \A i \in DOMAIN bonds :
             LET y == bonds[i].maturity_years
                 due == bonds[i].issue_date + 365 * y
                 reissued == \E k \in DOMAIN rollover_history :
                                rollover_history[k][1] = bonds[i].issue_date
             IN  /\ due <= e[1] => maturity_date(bonds'[i]) = e[1] + 365 * y
                 /\ (y >= 1 /\ reissued) =>
                      IF e[1] < due
                      THEN bonds'[i] = bonds[i]
                      ELSE /\ bonds'[i].issue_date = e[1]
                           /\ bonds'[i].interest_rate = e[2]]_vars

\* A one-year bond was reissued on 2021-01-01, left alone on 2021-12-31 (one
\* day before its new maturity) and reissued again on 2022-01-01.
C13_Witness ==
    /\ op = "simulate_rollover"
    /\ calls = 3
    /\ rollover_history = << <<Date(2021, 1, 1), Dollars(2500)>>,
                             <<Date(2021, 12, 31), Dollars(2500)>>,
                             <<Date(2022, 1, 1), Dollars(2500)>> >>
    /\ bonds = <<TreasuryBond(100000, Date(2022, 1, 1), 1, 25)>>
    /\ rollover_count = 1
    /\ maturity_date(bonds[1]) = Date(2023, 1, 1)

\* C15: the value simulate_rollover(current_date, new_rate) returns is the
\* sum, over exactly the bonds it reissues, of principal * (new_rate - the
\* bond's rate before the call); the other bonds are unchanged, and the total
\* debt and the number of bonds are the same before and after the call.
C15_ReturnDecomposition ==
    [][\A e \in RolloverInputsWide :
         RolloverStep(e[1], e[2]) =>
           LET rolled == {i \in DOMAIN bonds :
                            bonds[i].issue_date + 365 * bonds[i].maturity_years <= e[1]}
               delta == [i \in DOMAIN bonds |->
                            bonds[i].principal * (e[2] - bonds[i].interest_rate)]
           IN  /\ ret' = <<Sigma(rolled, delta)>>
               /\ rollover_count' = Cardinality(rolled)
               /\ \A i \in DOMAIN bonds \ rolled : bonds'[i] = bonds[i]
               /\ get_total_debt(bonds') = get_total_debt(bonds)
               /\ Len(bonds') = Len(bonds)]_vars

\* A call has reissued a bond of negative principal at a higher rate, left a
\* two-year bond alone and returned the negative change of the one bond.
C15_Witness ==
    /\ op = "simulate_rollover"
    /\ args = <<Date(2021, 1, 1), 25>>
    /\ calls = 1
    /\ Len(bonds) = 2
    /\ bonds[1] = TreasuryBond(40000, Date(2020, 1, 1), 2, 20)
    /\ bonds[2] = TreasuryBond(-40000, Date(2021, 1, 1), 0, 25)
    /\ rollover_count = 1
    /\ total_rolled = -40000
    /\ ret = <<Dollars(-200)>>

\* C16 as stated: whenever rollover_history is non-empty, plot_rich returns
\* without raising, the maximum cost it divides by being different from 0.
C16_PlotRichCompletes ==
    (op = "plot_rich" /\ rollover_history # <<>>) =>
        /\ max(Costs(rollover_history)) # 0
        /\ raised = ""

====
